---- MODULE Spec2Model ----
(***************************************************************************)
(* Model of the serverless handlers of wpusa-test-connect:                 *)
(*   generate_punchlist     src/netlify/functions/env_check.js       10-107 *)
(*   import_manifest        src/netlify/functions/import_manifest.js   1-159 *)
(*   punchlist_pdf (simple) src/netlify/functions/import_manifest.js 161-301 *)
(*   punchlist_pdf (pro)    src/netlify/functions/punchlist_pdf.js           *)
(* One request is served at a time: requests share no in-process state.    *)
(* An action is the code a handler runs between two awaited outbound calls; *)
(* the loops of buildPdf are stepped one iteration at a time.  The backend *)
(* and the image host are external, so every awaited call has each of its  *)
(* outcomes: resolved ok, resolved not ok, rejected.                       *)
(***************************************************************************)
EXTENDS Integers, Sequences, FiniteSets, TLC

\* ------------------------------------------------------------- bounds
MaxRows == 2        \* rows of a diff handed to the Diff Calculator (CalcSpec)
MaxViewRows == 1    \* rows of a diff view read answered to the handler (Spec)
MaxQty == 1         \* largest quantity in a diff row
MaxItems == 44

VARIABLES
  handler,        \* which handler is serving the current request, or "idle"
  pc,             \* the outbound call the handler is awaiting, or "done"
  method,         \* req.method
  env,            \* process.env of the function: SUPABASE_URL / SERVICE_ROLE_KEY present
  calls,          \* outbound calls issued during the current request, in order
  resp,           \* the response returned, NoResp while the request is running
  punchlists,     \* backend table punchlists: the header rows written to it while the
                  \* current request is served (no handler depends on earlier rows)
  work_order_id,  \* generate_punchlist: body?.work_order_id ?? null
  diff,           \* generate_punchlist: body of the diff view read
  items,          \* generate_punchlist: the computed item list
  diffOk,         \* generate_punchlist: diffRes.ok
  pl,             \* generate_punchlist: the created header row, NoPl before
  plCreateOk,     \* generate_punchlist: plCreate.ok
  insOk,          \* generate_punchlist: ins.ok
  rows,           \* import_manifest: what req.json() yields for the POST body
  punchlist_id,   \* punchlist_pdf: event.queryStringParameters.punchlist_id, "" if absent
  brandEnv,       \* punchlist_pdf: BRAND_COMPANY_NAME / BRAND_LOGO_URL set in process.env
  pdfItems,       \* punchlist_pdf: the punchlist_items rows read, in the order returned
  branding,       \* punchlist_pdf: result of getWorkOrderBrand
  startIdx,       \* buildPdf: startIdx
  pageIndex,      \* buildPdf: pageIndex
  pages,          \* buildPdf: the pages of pdfDoc in the order added, with what is drawn on each
  companyLogoImg, \* buildPdf: companyLogoImg, "null" or "image"
  clientLogoImg,  \* buildPdf: clientLogoImg, "null" or "image"
  logoRes,        \* embedRemoteImage: what became of each logo's fetch, "" if none was issued
  pageCount,      \* buildPdf: pageCount, read before the footer loop
  footerIdx,      \* buildPdf: i of the footer loop
  sim_work_order_id, \* simple punchlist_pdf: work_order_id of the request, "" if absent
  plid,           \* simple punchlist_pdf: plid
  docPages,       \* simple punchlist_pdf: the page objects of pdfDoc, in document order
  draws,          \* simple punchlist_pdf: the text drawn, in drawing order
  failure,        \* what has gone wrong while the current request is served: "none", or the
                  \* latest of "body" (req.json() rejected), "backend" (a backend call
                  \* answered non-2xx), "thrown" (an awaited call rejected, or the code threw)
  plRow,          \* punchlist_pdf: the row the punchlist lookup returned: "unread", "none", "row"
  brandOverride,  \* punchlist_pdf: company name / logo carried by the request itself
  woRow           \* getWorkOrderBrand: wo, the work_orders row read

reqVars == <<handler, pc, method, env, calls, resp>>
genVars == <<work_order_id, diff, diffOk, items, pl, plCreateOk, insOk>>
impVars == <<rows>>
pdfVars == <<punchlist_id, brandEnv, pdfItems, branding, startIdx, pageIndex, pages,
             companyLogoImg, clientLogoImg, logoRes, pageCount, footerIdx>>
simVars == <<sim_work_order_id, plid, docPages, draws>>
auxVars == <<failure, plRow, brandOverride, woRow>>
vars == <<reqVars, punchlists, genVars, impVars, pdfVars, simVars, auxVars>>

\* ------------------------------------------------------------- values
NULL == <<>>                      \* a field that is null or undefined
Some(n) == <<n>>                  \* a field holding the number n
OptQty == {NULL} \cup {Some(n) : n \in 0..MaxQty}

Methods == {"GET", "POST"}
Envs == [url : BOOLEAN, key : BOOLEAN]
\* fetch(): resolved with res.ok, resolved with !res.ok, or rejected
FetchOutcomes == {"ok", "notok", "throw"}

\* a response: body is "json", "text", "pdf" or "error"
NoResp == [status |-> 0, body |-> "", error |-> "", items_count |-> 0, items |-> <<>>]
ErrorResp(s, e) == [status |-> s, body |-> "error", error |-> e, items_count |-> 0, items |-> <<>>]
PdfResp == [status |-> 200, body |-> "pdf", error |-> "", items_count |-> 0, items |-> <<>>]
OkResp(its) == [status |-> 200, body |-> "json", error |-> "", items_count |-> Len(its), items |-> its]

\* rows of v_manifest_vs_received; key stands for (manufacturer, model, room)
RowFields == OptQty \X OptQty \X OptQty
DiffRows(n, f) ==
  [i \in 1..n |-> [key |-> i,
                   expected_qty |-> f[i][1],
                   total_received |-> f[i][2],
                   total_damaged |-> f[i][3]]]
NoDiff == [isNull |-> TRUE, rows |-> <<>>]

NoPl == [id |-> 0, work_order_id |-> "null", status |-> ""]
NoBrandEnv == [name |-> FALSE, logo |-> FALSE]
NoLogoRes == [company |-> "", client |-> ""]
NoBranding == [companyDisplayName |-> "", companyLogo |-> "", clientLogo |-> ""]
NoOverride == [name |-> FALSE, logo |-> FALSE]
NoWo == [found |-> FALSE, company_display_name |-> FALSE, company_logo_url |-> FALSE,
         client_logo_url |-> FALSE]

\* what an awaited call's outcome adds to the record of what has gone wrong in the request
FailureOf(o) == IF o = "throw" THEN "thrown" ELSE IF o = "notok" THEN "backend" ELSE "none"
Noted(k) == IF k # "none" THEN k ELSE failure

\* ------------------------------------------------------------- Diff Calculator
\* v ?? 0
orZero(v) == IF v = NULL THEN 0 ELSE v[1]

\* Math.max(a, b)
MathMax(a, b) == IF a >= b THEN a ELSE b

\* the subtraction without the clamp at 0
missingOf_NoClamp(r) == orZero(r.expected_qty) - orZero(r.total_received)

missingOf(r) == MathMax(orZero(r.expected_qty) - orZero(r.total_received), 0)

buildItem(r) ==
  [key |-> r.key,
   expected_qty |-> orZero(r.expected_qty),
   received_qty |-> orZero(r.total_received),
   missing_qty |-> missingOf(r),
   damaged_qty |-> orZero(r.total_damaged)]

\* a filter that looks at missing_qty only
keepItem_MissingOnly(i) == i.missing_qty > 0

keepItem(i) == i.missing_qty > 0 \/ i.damaged_qty > 0

\* (diff || []).map(...).filter(...)
computeItems(d) ==
  LET list == IF d.isNull THEN <<>> ELSE d.rows
      mapped == [k \in 1..Len(list) |-> buildItem(list[k])]
  IN SelectSeq(mapped, keepItem)

\* ------------------------------------------------------------- generate_punchlist
\* only a function with neither variable set is turned away
configMissing_BothOnly(e) == ~e.url /\ ~e.key

\* !SUPABASE_URL || !SRK
configMissing(e) == ~e.url \/ ~e.key

\* the create's response is never checked
createFailed_Never(ok) == FALSE

\* line 64: !plCreate.ok
createFailed(ok) == ~ok

\* the insert is issued whatever the item list holds
insertNeeded_Always(its) == TRUE

\* line 71: items.length > 0
insertNeeded(its) == Len(its) > 0

\* the insert's response is never checked
insertFailed_Never(ok) == FALSE

\* line 83: !ins.ok
insertFailed(ok) == ~ok

InitLocals ==
  /\ method = "GET"
  /\ env = [url |-> TRUE, key |-> TRUE]
  /\ calls = <<>>
  /\ resp = NoResp
  /\ punchlists = {}
  /\ work_order_id = "null"
  /\ items = <<>>
  /\ diffOk = FALSE
  /\ pl = NoPl
  /\ plCreateOk = FALSE
  /\ insOk = FALSE
  /\ rows = "none"
  /\ punchlist_id = ""
  /\ brandEnv = NoBrandEnv
  /\ pdfItems = <<>>
  /\ branding = NoBranding
  /\ startIdx = 0
  /\ pageIndex = 0
  /\ pages = <<>>
  /\ companyLogoImg = "null"
  /\ clientLogoImg = "null"
  /\ logoRes = NoLogoRes
  /\ pageCount = 0
  /\ footerIdx = 0
  /\ sim_work_order_id = ""
  /\ plid = ""
  /\ docPages = <<>>
  /\ draws = <<>>
  /\ failure = "none"
  /\ plRow = "unread"
  /\ brandOverride = NoOverride
  /\ woRow = NoWo

Init ==
  /\ handler = "idle"
  /\ pc = "done"
  /\ diff = NoDiff
  /\ InitLocals

Respond(r) ==
  /\ resp' = r
  /\ pc' = "done"

\* lines 24-25: req.json().catch(() => ({})), then body?.work_order_id ?? null
bodyWorkOrderId(parsed, w) == IF parsed THEN w ELSE "null"

\* lines 11-30: method check, config check, body parse, then the diff view read is issued
GenRequest ==
  /\ UNCHANGED <<plRow, brandOverride, woRow>>
  /\ UNCHANGED simVars
  /\ handler = "idle"
  /\ \E m \in Methods, e \in Envs, w \in {"null", "wo1"}, parsed \in BOOLEAN :
       /\ failure' = IF m = "POST" /\ ~configMissing(e) /\ ~parsed THEN "body" ELSE "none"
       /\ handler' = "generate"
       /\ method' = m
       /\ env' = e
       /\ diff' = NoDiff /\ items' = <<>> /\ pl' = NoPl
       /\ diffOk' = FALSE /\ plCreateOk' = FALSE /\ insOk' = FALSE
       /\ IF m # "POST"
            THEN /\ Respond(ErrorResp(405, "Use POST"))
                 /\ calls' = <<>> /\ work_order_id' = "null"
          ELSE IF configMissing(e)
            THEN /\ Respond(ErrorResp(500, "Missing SUPABASE_URL or SERVICE ROLE KEY"))
                 /\ calls' = <<>> /\ work_order_id' = "null"
          ELSE /\ work_order_id' = bodyWorkOrderId(parsed, w)
               /\ calls' = <<"diffRead">>
               /\ pc' = "diffRes"
               /\ resp' = NoResp
  /\ UNCHANGED <<punchlists, impVars, pdfVars>>

\* lines 31-63: the diff read returns; items are computed and the header create is issued
GenDiffRes ==
  /\ UNCHANGED <<plRow, brandOverride, woRow>>
  /\ UNCHANGED simVars
  /\ handler = "generate" /\ pc = "diffRes"
  /\ \E o \in FetchOutcomes :
       /\ failure' = Noted(FailureOf(o))
       /\ \/ /\ o = "throw"
             /\ Respond(ErrorResp(500, "thrown"))
             /\ UNCHANGED <<calls, diff, diffOk, items>>
          \/ /\ o = "notok"
             /\ Respond(ErrorResp(500, "Failed to read diff view"))
             /\ UNCHANGED <<calls, diff, diffOk, items>>
          \/ /\ o = "ok"
             /\ diffOk' = TRUE
             /\ \/ /\ diff' = NoDiff
                   /\ items' = computeItems(NoDiff)
                \/ \E n \in 0..MaxViewRows : \E f \in [1..n -> RowFields] :
                     LET d == [isNull |-> FALSE, rows |-> DiffRows(n, f)] IN
                       /\ diff' = d
                       /\ items' = computeItems(d)
             /\ calls' = Append(calls, "plCreate")
             /\ pc' = "plCreate"
             /\ UNCHANGED resp
  /\ UNCHANGED <<handler, method, env, punchlists, work_order_id, pl, plCreateOk, insOk, impVars, pdfVars>>

\* lines 64-102: the header create returns; the item insert is issued if there are items
GenCreateRes ==
  /\ UNCHANGED <<plRow, brandOverride, woRow>>
  /\ UNCHANGED simVars
  /\ handler = "generate" /\ pc = "plCreate"
  /\ \E o \in FetchOutcomes :
       /\ failure' = Noted(FailureOf(o))
       /\ \/ /\ o = "throw"
             /\ Respond(ErrorResp(500, "thrown"))
             /\ UNCHANGED <<calls, punchlists, pl, plCreateOk>>
          \/ /\ o # "throw"
             /\ plCreateOk' = (o = "ok")
             /\ LET row == [id |-> Cardinality(punchlists) + 1,
                             work_order_id |-> work_order_id,
                             status |-> "draft"]
                IN
                  /\ punchlists' = IF o = "ok" THEN punchlists \cup {row} ELSE punchlists
                  /\ IF createFailed(o = "ok")
                       THEN /\ Respond(ErrorResp(500, "Failed to create punchlist"))
                            /\ UNCHANGED <<calls, pl>>
                     ELSE /\ pl' = row
                          /\ IF insertNeeded(items)
                               THEN /\ calls' = Append(calls, "itemInsert")
                                    /\ pc' = "ins"
                                    /\ UNCHANGED resp
                             ELSE /\ Respond(OkResp(<<>>))
                                  /\ UNCHANGED calls
  /\ UNCHANGED <<handler, method, env, work_order_id, diff, diffOk, items, insOk, impVars, pdfVars>>

\* lines 83-94: the item insert returns
GenInsertRes ==
  /\ UNCHANGED <<plRow, brandOverride, woRow>>
  /\ UNCHANGED simVars
  /\ handler = "generate" /\ pc = "ins"
  /\ \E o \in FetchOutcomes :
       /\ failure' = Noted(FailureOf(o))
       /\ \/ /\ o = "throw"
             /\ Respond(ErrorResp(500, "thrown"))
             /\ UNCHANGED insOk
          \/ /\ o # "throw"
             /\ insOk' = (o = "ok")
             /\ IF insertFailed(o = "ok")
                  THEN Respond(ErrorResp(500, "Failed to insert punchlist items"))
                ELSE Respond(OkResp(items))
  /\ UNCHANGED <<handler, method, env, calls, punchlists, work_order_id, diff, diffOk, items, pl, plCreateOk, impVars, pdfVars>>

\* ------------------------------------------------------------- import_manifest
\* what `await req.json()` does with the POST body: it rejects ("unparsable"),
\* or yields a value that is no array, an empty array, or a non-empty array
BodyKinds == {"unparsable", "nonarray", "empty", "rows"}

\* !Array.isArray(rows) || rows.length === 0
bodyInvalid(b) == b = "nonarray" \/ b = "empty"

\* statuses of a non-2xx upsert response, passed through as up.status
UpsertErrorStatuses == {409, 500}

\* lines 110-130 and 84-89: method check, config check, body validation, then
\* ensureDDL issues the POST to /rest/v1/sql
ImpRequest ==
  /\ UNCHANGED <<plRow, brandOverride, woRow>>
  /\ UNCHANGED simVars
  /\ handler = "idle"
  /\ \E m \in Methods, e \in Envs, b \in BodyKinds :
       /\ failure' = IF m = "POST" /\ ~configMissing(e) /\ b = "unparsable" THEN "body" ELSE "none"
       /\ handler' = "import"
       /\ method' = m
       /\ env' = e
       /\ IF m # "POST"
            THEN /\ Respond(ErrorResp(405, "Use POST"))
                 /\ calls' = <<>> /\ rows' = "none"
          ELSE IF configMissing(e)
            THEN /\ Respond(ErrorResp(500, "Missing SUPABASE_URL or SUPABASE_SERVICE_ROLE_KEY"))
                 /\ calls' = <<>> /\ rows' = "none"
          ELSE IF b = "unparsable"
            THEN /\ Respond(ErrorResp(500, "thrown"))
                 /\ calls' = <<>> /\ rows' = b
          ELSE IF bodyInvalid(b)
            THEN /\ Respond(ErrorResp(400, "Provide a non-empty JSON array"))
                 /\ calls' = <<>> /\ rows' = b
          ELSE /\ rows' = b
               /\ calls' = <<"sql">>
               /\ pc' = "sql"
               /\ resp' = NoResp
  /\ UNCHANGED <<punchlists, genVars, pdfVars>>

\* lines 91-102 and 131-138: the SQL endpoint answers; the helper rpc is issued
ImpSqlRes ==
  /\ UNCHANGED <<plRow, brandOverride, woRow>>
  /\ UNCHANGED simVars
  /\ handler = "import" /\ pc = "sql"
  /\ \E o \in FetchOutcomes :
       /\ failure' = Noted(FailureOf(o))
       /\ IF o = "ok"
            THEN /\ calls' = Append(calls, "rpc")
                 /\ pc' = "rpc"
                 /\ UNCHANGED resp
          ELSE /\ Respond(ErrorResp(501, "DDL bootstrap required"))
               /\ UNCHANGED calls
  /\ UNCHANGED <<handler, method, env, punchlists, genVars, impVars, pdfVars>>

\* lines 104-107 and 131-150: the helper rpc answers; the upsert is issued
ImpRpcRes ==
  /\ UNCHANGED <<plRow, brandOverride, woRow>>
  /\ UNCHANGED simVars
  /\ handler = "import" /\ pc = "rpc"
  /\ \E o \in FetchOutcomes :
       /\ failure' = Noted(FailureOf(o))
       /\ IF o = "ok"
            THEN /\ calls' = Append(calls, "upsert")
                 /\ pc' = "upsert"
                 /\ UNCHANGED resp
          ELSE /\ Respond(ErrorResp(501, "DDL bootstrap required"))
               /\ UNCHANGED calls
  /\ UNCHANGED <<handler, method, env, punchlists, genVars, impVars, pdfVars>>

\* lines 152-158: the upsert answers
ImpUpsertRes ==
  /\ UNCHANGED <<plRow, brandOverride, woRow>>
  /\ UNCHANGED simVars
  /\ handler = "import" /\ pc = "upsert"
  /\ \/ /\ Respond(ErrorResp(500, "thrown"))
        /\ failure' = Noted("thrown")
     \/ /\ \E st \in UpsertErrorStatuses : Respond(ErrorResp(st, "Upsert failed"))
        /\ failure' = Noted("backend")
     \/ /\ Respond(OkResp(<<>>))
        /\ UNCHANGED failure
  /\ UNCHANGED <<handler, method, env, calls, punchlists, genVars, impVars, pdfVars>>

\* ------------------------------------------------------------- punchlist_pdf (pro)
pageHeight == 612
pageMargin == 50
tableRowHeight == 22
headerHeight == 24
headerFooterSpace == 180

\* measureRowsPerPage: Math.floor((usable - headerHeight) / tableRowHeight)
measureRowsPerPage ==
  LET usable == pageHeight - pageMargin * 2 - headerFooterSpace
  IN (usable - headerHeight) \div tableRowHeight

MathMin(a, b) == IF a <= b THEN a ELSE b

\* Array.prototype.slice(a, b) for 0 <= a
jsSlice(s, a, b) == SubSeq(s, a + 1, MathMin(b, Len(s)))

\* the condition of the pagination loop
loopCond(start, len, idx) == start < len \/ idx = 0

\* the next page starts one item too far
nextStart_SkipOne(endIdx) == endIdx + 1

\* startIdx = endIdx
nextStart(endIdx) == endIdx

\* FALLBACK_BRAND: process.env.BRAND_COMPANY_NAME || "WPUSA", process.env.BRAND_LOGO_URL || ""
FALLBACK_BRAND(be) ==
  [companyName |-> IF be.name THEN "env" ELSE "WPUSA",
   companyLogo |-> IF be.logo THEN "env" ELSE ""]

\* the work_orders row read by getWorkOrderBrand: absent, or which branding columns are non-empty
WorkOrders ==
  {NoWo} \cup [found : {TRUE}, company_display_name : BOOLEAN, company_logo_url : BOOLEAN,
               client_logo_url : BOOLEAN]

\* the environment fallback is asked before the work order's columns
getWorkOrderBrand_EnvFirst(wo, be) ==
  [companyDisplayName |-> IF be.name THEN "env"
                          ELSE IF wo.found /\ wo.company_display_name THEN "wo" ELSE "WPUSA",
   companyLogo |-> IF be.logo THEN "env"
                   ELSE IF wo.found /\ wo.company_logo_url THEN "wo" ELSE "",
   clientLogo |-> IF wo.found /\ wo.client_logo_url THEN "wo" ELSE ""]

\* lines 53-73: wo?.company_display_name || FALLBACK_BRAND.companyName, and so on
getWorkOrderBrand(wo, be) ==
  [companyDisplayName |-> IF wo.found /\ wo.company_display_name
                            THEN "wo" ELSE FALLBACK_BRAND(be).companyName,
   companyLogo |-> IF wo.found /\ wo.company_logo_url
                     THEN "wo" ELSE FALLBACK_BRAND(be).companyLogo,
   clientLogo |-> IF wo.found /\ wo.client_logo_url THEN "wo" ELSE ""]

BlankPage(its) ==
  [pageItems |-> its, drawn |-> FALSE, logos |-> {}, rowsDrawn |-> <<>>, footers |-> <<>>]

\* the loop index used as the page number
footerLabel_ZeroBased(i, count) == [pageNumber |-> i, pageCount |-> count]

\* drawFooter's page label
footerLabel(i, count) == [pageNumber |-> i + 1, pageCount |-> count]

\* only a rejected fetch ends the call: the res.ok test is missing
supaFetchThrows_RejectedOnly(o) == o = "throw"

\* supaFetch lines 20-33: fetch rejects, or the response is not ok and an Error is thrown
supaFetchThrows(o) == o # "ok"

\* lines 293-303 and 40-42: config check, identifier check, then the punchlist read is issued
ProRequest ==
  /\ UNCHANGED <<failure, plRow, woRow>>
  /\ UNCHANGED simVars
  /\ handler = "idle"
  /\ \E e \in Envs, id \in {"", "p1"}, be \in [name : BOOLEAN, logo : BOOLEAN],
        ov \in [name : BOOLEAN, logo : BOOLEAN] :
       /\ handler' = "pro_pdf"
       /\ brandOverride' = ov
       /\ method' = "GET"
       /\ env' = e
       /\ brandEnv' = be
       /\ IF configMissing(e)
            THEN /\ Respond(ErrorResp(500, "Missing Supabase env vars"))
                 /\ calls' = <<>> /\ punchlist_id' = ""
          ELSE IF id = ""
            THEN /\ Respond(ErrorResp(400, "Provide ?punchlist_id=..."))
                 /\ calls' = <<>> /\ punchlist_id' = id
          ELSE /\ punchlist_id' = id
               /\ calls' = <<"plRead">>
               /\ pc' = "plRead"
               /\ resp' = NoResp
  /\ UNCHANGED <<punchlists, genVars, impVars, pdfItems, branding, startIdx, pageIndex, pages,
                 companyLogoImg, clientLogoImg, logoRes, pageCount, footerIdx>>

\* lines 30-33, 43-48: the punchlist read answers; the items read is issued
ProPlRes ==
  /\ UNCHANGED <<brandOverride, woRow>>
  /\ UNCHANGED simVars
  /\ handler = "pro_pdf" /\ pc = "plRead"
  /\ \E o \in FetchOutcomes, found \in BOOLEAN :
       IF supaFetchThrows(o)
         THEN /\ Respond(ErrorResp(500, "Supabase error"))
              /\ failure' = Noted(FailureOf(o))
              /\ UNCHANGED <<calls, plRow>>
       ELSE IF ~found
         THEN /\ Respond(ErrorResp(500, "Punchlist not found"))
              /\ failure' = Noted(IF o = "ok" THEN "thrown" ELSE FailureOf(o))
              /\ plRow' = "none"
              /\ UNCHANGED calls
       ELSE /\ calls' = Append(calls, "itemsRead")
            /\ pc' = "itemsRead"
            /\ failure' = Noted(FailureOf(o))
            /\ plRow' = "row"
            /\ UNCHANGED resp
  /\ UNCHANGED <<handler, method, env, punchlists, genVars, impVars, pdfVars>>

\* lines 50, 304, 61-63: the items read answers; getWorkOrderBrand issues the work order read
ProItemsRes ==
  /\ UNCHANGED <<plRow, brandOverride, woRow>>
  /\ UNCHANGED simVars
  /\ handler = "pro_pdf" /\ pc = "itemsRead"
  /\ \E o \in FetchOutcomes :
       /\ failure' = Noted(FailureOf(o))
       /\ IF supaFetchThrows(o)
            THEN /\ Respond(ErrorResp(500, "Supabase error"))
                 /\ UNCHANGED <<calls, pdfItems>>
          ELSE /\ \E n \in 0..MaxItems : pdfItems' = [k \in 1..n |-> k]
               /\ calls' = Append(calls, "woRead")
               /\ pc' = "woRead"
               /\ UNCHANGED resp
  /\ UNCHANGED <<handler, method, env, punchlists, genVars, impVars, punchlist_id, brandEnv,
                 branding, startIdx, pageIndex, pages, companyLogoImg, clientLogoImg,
                 logoRes, pageCount, footerIdx>>

\* lines 65-72, 306, 167-187: the work order read answers; buildPdf starts
ProWoRes ==
  /\ UNCHANGED <<plRow, brandOverride>>
  /\ UNCHANGED simVars
  /\ handler = "pro_pdf" /\ pc = "woRead"
  /\ \E o \in FetchOutcomes :
       /\ failure' = Noted(FailureOf(o))
       /\ IF supaFetchThrows(o)
            THEN /\ Respond(ErrorResp(500, "Supabase error"))
                 /\ UNCHANGED <<branding, startIdx, pageIndex, pages, woRow>>
          ELSE /\ \E wo \in WorkOrders :
                    /\ woRow' = wo
                    /\ branding' = getWorkOrderBrand(wo, brandEnv)
               /\ startIdx' = 0
               /\ pageIndex' = 0
               /\ pages' = <<>>
               /\ pc' = "paginate"
               /\ UNCHANGED resp
  /\ UNCHANGED <<handler, method, env, calls, punchlists, genVars, impVars, punchlist_id,
                 brandEnv, pdfItems, companyLogoImg, clientLogoImg, logoRes, pageCount,
                 footerIdx>>

\* lines 189-198: one iteration of the pagination loop
ProPaginate ==
  /\ UNCHANGED auxVars
  /\ UNCHANGED simVars
  /\ handler = "pro_pdf" /\ pc = "paginate"
  /\ loopCond(startIdx, Len(pdfItems), pageIndex)
  /\ LET rowsPerPage == measureRowsPerPage
         endIdx == MathMin(startIdx + rowsPerPage, Len(pdfItems))
         pageItems == jsSlice(pdfItems, startIdx, endIdx)
     IN /\ pages' = Append(pages, BlankPage(pageItems))
        /\ startIdx' = nextStart(endIdx)
        /\ pageIndex' = pageIndex + 1
        /\ pc' = IF Len(pdfItems) = 0 /\ pageIndex + 1 = 1 THEN "companyLogo" ELSE "paginate"
  /\ UNCHANGED <<handler, method, env, calls, resp, punchlists, genVars, impVars, punchlist_id,
                 brandEnv, pdfItems, branding, companyLogoImg, clientLogoImg, logoRes,
                 pageCount, footerIdx>>

\* line 189: the loop condition fails
ProPaginateExit ==
  /\ UNCHANGED auxVars
  /\ UNCHANGED simVars
  /\ handler = "pro_pdf" /\ pc = "paginate"
  /\ ~loopCond(startIdx, Len(pdfItems), pageIndex)
  /\ pc' = "companyLogo"
  /\ UNCHANGED <<handler, method, env, calls, resp, punchlists, genVars, impVars, pdfVars>>

\* what happens to a logo whose fetch was issued (embedRemoteImage, lines 77-87):
\*   "throw"        fetch or arrayBuffer rejects inside the try: caught, null
\*   "notok"        !res.ok: null
\*   "embedded"     embedPng / embedJpg resolves with the image
\*   "embedRejects" the promise returned by embedPng / embedJpg rejects; it is returned
\*                  without await, so the rejection settles embedRemoteImage's own promise
\*                  outside the try block
LogoOutcomes == {"throw", "notok", "embedded", "embedRejects"}

\* embedRemoteImage's result for an outcome that does not reject
logoImage(o) == IF o = "embedded" THEN "image" ELSE "null"

\* whether the outcome rejects the promise embedRemoteImage returns
logoRejects(o) == o = "embedRejects"

\* lines 201, 76-78: embedRemoteImage(pdfDoc, branding.companyLogo) up to its fetch
ProCompanyLogo ==
  /\ UNCHANGED auxVars
  /\ UNCHANGED simVars
  /\ handler = "pro_pdf" /\ pc = "companyLogo"
  /\ IF branding.companyLogo = ""
       THEN /\ companyLogoImg' = "null"
            /\ pc' = "clientLogo"
            /\ UNCHANGED calls
     ELSE /\ calls' = Append(calls, "logoFetch")
          /\ pc' = "companyLogoRes"
          /\ UNCHANGED companyLogoImg
  /\ UNCHANGED <<handler, method, env, resp, punchlists, genVars, impVars, punchlist_id, brandEnv,
                 pdfItems, branding, startIdx, pageIndex, pages, clientLogoImg, logoRes,
                 pageCount, footerIdx>>

\* lines 79-87, 201, 316-318: the company logo fetch answers
ProCompanyLogoRes ==
  /\ UNCHANGED <<plRow, brandOverride, woRow>>
  /\ UNCHANGED simVars
  /\ handler = "pro_pdf" /\ pc = "companyLogoRes"
  /\ \E o \in LogoOutcomes :
       /\ logoRes' = [logoRes EXCEPT !.company = o]
       /\ failure' = Noted(IF o = "embedRejects" THEN "thrown" ELSE "none")
       /\ IF logoRejects(o)
            THEN /\ Respond(ErrorResp(500, "thrown"))
                 /\ UNCHANGED companyLogoImg
          ELSE /\ companyLogoImg' = logoImage(o)
               /\ pc' = "clientLogo"
               /\ UNCHANGED resp
  /\ UNCHANGED <<handler, method, env, calls, punchlists, genVars, impVars, punchlist_id,
                 brandEnv, pdfItems, branding, startIdx, pageIndex, pages, clientLogoImg,
                 pageCount, footerIdx>>

\* lines 202, 76-78: embedRemoteImage(pdfDoc, branding.clientLogo) up to its fetch
ProClientLogo ==
  /\ UNCHANGED auxVars
  /\ UNCHANGED simVars
  /\ handler = "pro_pdf" /\ pc = "clientLogo"
  /\ IF branding.clientLogo = ""
       THEN /\ clientLogoImg' = "null"
            /\ pc' = "draw"
            /\ UNCHANGED calls
     ELSE /\ calls' = Append(calls, "logoFetch")
          /\ pc' = "clientLogoRes"
          /\ UNCHANGED clientLogoImg
  /\ UNCHANGED <<handler, method, env, resp, punchlists, genVars, impVars, punchlist_id, brandEnv,
                 pdfItems, branding, startIdx, pageIndex, pages, companyLogoImg, logoRes,
                 pageCount, footerIdx>>

\* lines 79-87, 202, 316-318: the client logo fetch answers
ProClientLogoRes ==
  /\ UNCHANGED <<plRow, brandOverride, woRow>>
  /\ UNCHANGED simVars
  /\ handler = "pro_pdf" /\ pc = "clientLogoRes"
  /\ \E o \in LogoOutcomes :
       /\ logoRes' = [logoRes EXCEPT !.client = o]
       /\ failure' = Noted(IF o = "embedRejects" THEN "thrown" ELSE "none")
       /\ IF logoRejects(o)
            THEN /\ Respond(ErrorResp(500, "thrown"))
                 /\ UNCHANGED clientLogoImg
          ELSE /\ clientLogoImg' = logoImage(o)
               /\ pc' = "draw"
               /\ UNCHANGED resp
  /\ UNCHANGED <<handler, method, env, calls, punchlists, genVars, impVars, punchlist_id,
                 brandEnv, pdfItems, branding, startIdx, pageIndex, pages, companyLogoImg,
                 pageCount, footerIdx>>

\* lines 205-285: every page is drawn, then the page count is read
ProDraw ==
  /\ UNCHANGED auxVars
  /\ UNCHANGED simVars
  /\ handler = "pro_pdf" /\ pc = "draw"
  /\ pages' = [k \in 1..Len(pages) |->
                 [pages[k] EXCEPT
                    !.drawn = TRUE,
                    !.logos = (IF companyLogoImg # "null" THEN {"company"} ELSE {}) \cup
                              (IF clientLogoImg # "null" THEN {"client"} ELSE {}),
                    !.rowsDrawn = pages[k].pageItems]]
  /\ pageCount' = Len(pages)
  /\ footerIdx' = 0
  /\ pc' = "footer"
  /\ UNCHANGED <<handler, method, env, calls, resp, punchlists, genVars, impVars, punchlist_id,
                 brandEnv, pdfItems, branding, startIdx, pageIndex, companyLogoImg,
                 clientLogoImg, logoRes>>

\* lines 286-288: one iteration of the footer loop
ProFooter ==
  /\ UNCHANGED auxVars
  /\ UNCHANGED simVars
  /\ handler = "pro_pdf" /\ pc = "footer"
  /\ footerIdx < pageCount
  /\ pages' = [pages EXCEPT ![footerIdx + 1].footers =
                 Append(@, footerLabel(footerIdx, pageCount))]
  /\ footerIdx' = footerIdx + 1
  /\ UNCHANGED <<reqVars, punchlists, genVars, impVars, punchlist_id, brandEnv, pdfItems,
                 branding, startIdx, pageIndex, companyLogoImg, clientLogoImg, logoRes,
                 pageCount>>

\* lines 290, 307-315: the document is saved and returned
ProSave ==
  /\ UNCHANGED auxVars
  /\ UNCHANGED simVars
  /\ handler = "pro_pdf" /\ pc = "footer"
  /\ ~(footerIdx < pageCount)
  /\ Respond(PdfResp)
  /\ UNCHANGED <<handler, method, env, calls, punchlists, genVars, impVars, pdfVars>>

\* ------------------------------------------------------------- punchlist_pdf (simple)
simPageHeight == 792
simMargin == 40
simLineGap == 6
simTitleSize == 20
simMetaSize == 10
simRowStep == 16
simBottom == 80
simSignatureGap == 10
simSignatureSize == 12

\* one drawText call: what is drawn, on which page object, at which y
Draw(kind, item, page, y) == [kind |-> kind, item |-> item, page |-> page, y |-> y]

\* lines 238-261: the header lines and the table header row, all on the first page;
\* the result is the draws and the cursor y after them
simHeader ==
  LET y0 == simPageHeight - simMargin
      y1 == y0 - (simTitleSize + simLineGap)
      y2 == y1 - (simMetaSize + simLineGap)
      y3 == y2 - (simMetaSize + simLineGap)
      y4 == y3 - (simMetaSize + simLineGap) - simLineGap
  IN [draws |-> <<Draw("text", 0, 1, y0), Draw("text", 0, 1, y1), Draw("text", 0, 1, y2),
                  Draw("text", 0, 1, y3), Draw("header", 0, 1, y4)>>,
      docPages |-> <<1>>,
      y |-> y4 - simRowStep]

\* lines 267-281: items.forEach; `page` is the one page object created at line 223, and
\* pdfDoc.addPage(page) appends that same object to the document again
RECURSIVE simRows(_, _, _)
simRows(its, k, st) ==
  IF k > Len(its) THEN st
  ELSE LET broke == st.y < simBottom
           y == IF broke THEN simPageHeight - simMargin ELSE st.y
       IN simRows(its, k + 1,
                  [draws |-> Append(st.draws, Draw("row", its[k], 1, y)),
                   docPages |-> IF broke THEN Append(st.docPages, 1) ELSE st.docPages,
                   y |-> y - simRowStep])

\* lines 283-285: the two signature lines
simSignatures(st) ==
  LET y1 == st.y - simSignatureGap
      y2 == y1 - (simSignatureSize + simLineGap)
  IN [st EXCEPT !.draws = st.draws \o <<Draw("signature", 0, 1, y1), Draw("signature", 0, 1, y2)>>,
                !.y = y2 - (simSignatureSize + simLineGap)]

simBuild(its) == simSignatures(simRows(its, 1, simHeader))

\* lines 166-207: body parse, config check, identifier check, then the first read is issued
SimRequest ==
  /\ UNCHANGED <<plRow, brandOverride, woRow>>
  /\ handler = "idle"
  /\ \E m \in Methods, e \in Envs, parsed \in BOOLEAN, id \in {"", "p1"}, w \in {"", "wo1"} :
       /\ handler' = "simple_pdf"
       /\ failure' = IF m = "POST" /\ ~parsed THEN "body" ELSE "none"
       /\ method' = m
       /\ env' = e
       /\ IF m = "POST" /\ ~parsed
            THEN /\ Respond(ErrorResp(500, "PDF generation failed"))
                 /\ calls' = <<>> /\ punchlist_id' = "" /\ sim_work_order_id' = "" /\ plid' = ""
          ELSE IF configMissing(e)
            THEN /\ Respond(ErrorResp(500, "Missing Supabase env vars"))
                 /\ calls' = <<>> /\ punchlist_id' = "" /\ sim_work_order_id' = "" /\ plid' = ""
          ELSE /\ punchlist_id' = id
               /\ sim_work_order_id' = w
               /\ plid' = id
               /\ IF id = "" /\ w = ""
                    THEN /\ Respond(ErrorResp(400, "Provide punchlist_id or work_order_id"))
                         /\ calls' = <<>>
                  ELSE IF id = ""
                    THEN /\ calls' = <<"plsRead">>
                         /\ pc' = "simResolve"
                         /\ resp' = NoResp
                  ELSE /\ calls' = <<"plRead">>
                       /\ pc' = "simPl"
                       /\ resp' = NoResp
  /\ UNCHANGED <<punchlists, genVars, impVars, brandEnv, pdfItems, branding, startIdx, pageIndex,
                 pages, companyLogoImg, clientLogoImg, logoRes, pageCount, footerIdx,
                 docPages, draws>>

\* lines 207-213: the latest punchlist of the work order is looked up
SimResolveRes ==
  /\ UNCHANGED <<brandOverride, woRow>>
  /\ handler = "simple_pdf" /\ pc = "simResolve"
  /\ \E o \in FetchOutcomes, found \in BOOLEAN :
       IF o # "ok"
         THEN /\ Respond(ErrorResp(500, "PDF generation failed"))
              /\ failure' = Noted(FailureOf(o))
              /\ UNCHANGED <<calls, plid, plRow>>
       ELSE IF ~found
         THEN /\ Respond(ErrorResp(404, "No punchlist found for work_order_id"))
              /\ plRow' = "none"
              /\ UNCHANGED <<calls, plid, failure>>
       ELSE /\ plid' = "p1"
            /\ UNCHANGED <<failure, plRow>>
            /\ calls' = Append(calls, "plRead")
            /\ pc' = "simPl"
            /\ UNCHANGED resp
  /\ UNCHANGED <<handler, method, env, punchlists, genVars, impVars, punchlist_id, brandEnv,
                 pdfItems, branding, startIdx, pageIndex, pages, companyLogoImg, clientLogoImg,
                 logoRes, pageCount, footerIdx, sim_work_order_id, docPages, draws>>

\* lines 213-214: the punchlist row is read; pl.work_order_id is needed for the next read
SimPlRes ==
  /\ UNCHANGED <<brandOverride, woRow>>
  /\ handler = "simple_pdf" /\ pc = "simPl"
  /\ \E o \in FetchOutcomes, found \in BOOLEAN :
       IF o # "ok"
         THEN /\ Respond(ErrorResp(500, "PDF generation failed"))
              /\ failure' = Noted(FailureOf(o))
              /\ UNCHANGED <<calls, plRow>>
       ELSE IF ~found
         THEN /\ Respond(ErrorResp(500, "PDF generation failed"))
              /\ failure' = Noted("thrown")
              /\ plRow' = "none"
              /\ UNCHANGED calls
       ELSE /\ calls' = Append(calls, "woRead")
            /\ pc' = "simWo"
            /\ plRow' = "row"
            /\ UNCHANGED <<resp, failure>>
  /\ UNCHANGED <<handler, method, env, punchlists, genVars, impVars, pdfVars, simVars>>

\* lines 214-219: the work order is read; the items read is issued
SimWoRes ==
  /\ UNCHANGED <<plRow, brandOverride, woRow>>
  /\ handler = "simple_pdf" /\ pc = "simWo"
  /\ \E o \in FetchOutcomes :
       /\ failure' = Noted(FailureOf(o))
       /\ IF o # "ok"
            THEN /\ Respond(ErrorResp(500, "PDF generation failed"))
                 /\ UNCHANGED calls
          ELSE /\ calls' = Append(calls, "itemsRead")
               /\ pc' = "simItems"
               /\ UNCHANGED resp
  /\ UNCHANGED <<handler, method, env, punchlists, genVars, impVars, pdfVars, simVars>>

\* lines 217-293: the items are read, the document is drawn, saved and returned
SimItemsRes ==
  /\ UNCHANGED <<plRow, brandOverride, woRow>>
  /\ handler = "simple_pdf" /\ pc = "simItems"
  /\ \E o \in FetchOutcomes :
       /\ failure' = Noted(FailureOf(o))
       /\ IF o # "ok"
            THEN /\ Respond(ErrorResp(500, "PDF generation failed"))
                 /\ UNCHANGED <<pdfItems, docPages, draws>>
          ELSE \E n \in 0..MaxItems :
                 LET its == [k \in 1..n |-> k]
                     doc == simBuild(its)
                 IN /\ pdfItems' = its
                    /\ docPages' = doc.docPages
                    /\ draws' = doc.draws
                    /\ Respond(PdfResp)
  /\ UNCHANGED <<handler, method, env, calls, punchlists, genVars, impVars, punchlist_id,
                 brandEnv, branding, startIdx, pageIndex, pages, companyLogoImg, clientLogoImg,
                 logoRes, pageCount, footerIdx, sim_work_order_id, plid>>

\* the response has been returned; every request starts clean
Finish ==
  /\ handler # "idle" /\ pc = "done"
  /\ handler' = "idle"
  /\ method' = "GET"
  /\ env' = [url |-> TRUE, key |-> TRUE]
  /\ calls' = <<>>
  /\ resp' = NoResp
  /\ work_order_id' = "null"
  /\ diff' = NoDiff /\ items' = <<>> /\ pl' = NoPl
  /\ diffOk' = FALSE /\ plCreateOk' = FALSE /\ insOk' = FALSE
  /\ rows' = "none"
  /\ punchlist_id' = ""
  /\ brandEnv' = NoBrandEnv
  /\ pdfItems' = <<>>
  /\ branding' = NoBranding
  /\ startIdx' = 0 /\ pageIndex' = 0 /\ pages' = <<>>
  /\ companyLogoImg' = "null" /\ clientLogoImg' = "null"
  /\ logoRes' = NoLogoRes
  /\ pageCount' = 0 /\ footerIdx' = 0
  /\ sim_work_order_id' = "" /\ plid' = "" /\ docPages' = <<>> /\ draws' = <<>>
  /\ failure' = "none" /\ plRow' = "unread" /\ brandOverride' = NoOverride /\ woRow' = NoWo
  /\ punchlists' = {}
  /\ UNCHANGED pc

Next ==
  \/ GenRequest
  \/ GenDiffRes
  \/ GenCreateRes
  \/ GenInsertRes
  \/ ImpRequest
  \/ ImpSqlRes
  \/ ImpRpcRes
  \/ ImpUpsertRes
  \/ ProRequest
  \/ ProPlRes
  \/ ProItemsRes
  \/ ProWoRes
  \/ ProPaginate
  \/ ProPaginateExit
  \/ ProCompanyLogo
  \/ ProCompanyLogoRes
  \/ ProClientLogo
  \/ ProClientLogoRes
  \/ ProDraw
  \/ ProFooter
  \/ ProSave
  \/ SimRequest
  \/ SimResolveRes
  \/ SimPlRes
  \/ SimWoRes
  \/ SimItemsRes
  \/ Finish

Spec == Init /\ [][Next]_vars

\* the Diff Calculator alone (lines 38-50): any diff of at most MaxRows rows is handed
\* to the map/filter
CalcInit ==
  /\ handler = "calc"
  /\ pc = "calc"
  /\ \/ diff = NoDiff
     \/ \E n \in 0..MaxRows : \E f \in [1..n -> RowFields] :
          diff = [isNull |-> FALSE, rows |-> DiffRows(n, f)]
  /\ InitLocals

CalcApply ==
  /\ UNCHANGED auxVars
  /\ handler = "calc" /\ pc = "calc"
  /\ items' = computeItems(diff)
  /\ pc' = "done"
  /\ UNCHANGED <<handler, method, env, calls, resp, punchlists, work_order_id, diff, diffOk,
                 pl, plCreateOk, insOk, impVars, pdfVars, simVars>>

CalcSpec == CalcInit /\ [][CalcApply]_vars

\* the punchlist_pdf handler alone; a started request runs on until it has answered
PdfNext ==
  \/ ProRequest
  \/ ProPlRes
  \/ ProItemsRes
  \/ ProWoRes
  \/ ProPaginate
  \/ ProPaginateExit
  \/ ProCompanyLogo
  \/ ProCompanyLogoRes
  \/ ProClientLogo
  \/ ProClientLogoRes
  \/ ProDraw
  \/ ProFooter
  \/ ProSave
  \/ Finish

PdfFairSpec == Init /\ [][PdfNext]_vars /\ WF_vars(PdfNext)
\* ------------------------------------------------------------- properties
\* quantities of a diff row as the claims read them: an absent field counts as 0
Expected(r) == IF r.expected_qty = NULL THEN 0 ELSE r.expected_qty[1]
Received(r) == IF r.total_received = NULL THEN 0 ELSE r.total_received[1]
Damaged(r) == IF r.total_damaged = NULL THEN 0 ELSE r.total_damaged[1]
Shortfall(r) == IF Expected(r) - Received(r) > 0 THEN Expected(r) - Received(r) ELSE 0
Qualifies(r) == Shortfall(r) > 0 \/ Damaged(r) > 0

DiffList == IF diff.isNull THEN <<>> ELSE diff.rows
DiffWasRead == handler = "generate" /\ diffOk
ItemsComputed == DiffWasRead \/ (handler = "calc" /\ pc = "done")
Issued(op) == \E k \in 1..Len(calls) : calls[k] = op
TimesIssued(op) == Cardinality({k \in 1..Len(calls) : calls[k] = op})

\* C1: for every diff row processed by generate_punchlist the produced item has
\* missing_qty = max(expected_qty - total_received, 0), an absent quantity counting
\* as 0, and missing_qty is never negative.
C1_MissingQty ==
  ItemsComputed =>
    /\ \A k \in 1..Len(DiffList) :
         /\ buildItem(DiffList[k]).missing_qty = Shortfall(DiffList[k])
         /\ buildItem(DiffList[k]).missing_qty >= 0
    /\ \A j \in 1..Len(items) :
         /\ items[j].missing_qty = Shortfall(DiffList[items[j].key])
         /\ items[j].missing_qty >= 0
         /\ items[j].expected_qty = Expected(DiffList[items[j].key])
         /\ items[j].received_qty = Received(DiffList[items[j].key])

\* C1 witness: one kept item comes from a row that received more than expected
\* (clamped to 0), another from a row whose total_received is absent.
C1_Witness ==
  /\ ItemsComputed
  /\ \E j \in 1..Len(items) :
       /\ Received(DiffList[items[j].key]) > Expected(DiffList[items[j].key])
       /\ items[j].missing_qty = 0
  /\ \E j \in 1..Len(items) :
       /\ DiffList[items[j].key].total_received = NULL
       /\ items[j].missing_qty > 0

\* C2: the computed item list holds a row's item iff its missing_qty > 0 or its
\* damaged_qty > 0, and the kept items are in the relative order of their rows.
C2_FilterAndOrder ==
  ItemsComputed =>
    /\ \A k \in 1..Len(DiffList) :
         (\E j \in 1..Len(items) : items[j].key = k) <=> Qualifies(DiffList[k])
    /\ \A j \in 1..Len(items) :
         /\ items[j].key \in 1..Len(DiffList)
         /\ items[j].damaged_qty = Damaged(DiffList[items[j].key])
    /\ \A i, j \in 1..Len(items) : i < j => items[i].key < items[j].key

\* C2 witness: of two rows the first is dropped and the second is kept for its
\* damaged quantity alone.
C2_Witness ==
  /\ ItemsComputed
  /\ Len(DiffList) = 2
  /\ ~Qualifies(DiffList[1])
  /\ Len(items) = 1
  /\ items[1].key = 2
  /\ items[1].missing_qty = 0
  /\ items[1].damaged_qty > 0

\* C3: when the diff view was read and no row qualifies, exactly one header create
\* (status "draft") is issued, no item insert is issued, and if the create succeeds the
\* response is HTTP 200 with items_count = 0 and items = [].
C3_EmptyPunchlist ==
  (DiffWasRead /\ \A k \in 1..Len(DiffList) : ~Qualifies(DiffList[k])) =>
    /\ TimesIssued("plCreate") = 1
    /\ ~Issued("itemInsert")
    /\ plCreateOk => (pl \in punchlists /\ pl.status = "draft")
    /\ (pc = "done" /\ plCreateOk) =>
         (resp.status = 200 /\ resp.items_count = 0 /\ resp.items = <<>>)

\* C3 witness: a diff of rows that all fail to qualify has been answered after a
\* successful create.
C3_Witness ==
  /\ DiffWasRead
  /\ Len(DiffList) >= 1
  /\ \A k \in 1..Len(DiffList) : ~Qualifies(DiffList[k])
  /\ plCreateOk
  /\ pc = "done"
  /\ resp.status = 200

\* C4: the header create precedes any item insert, and a header create that does not
\* succeed ends the request with HTTP 500 and no item insert, whatever the item list.
C4_CreateBeforeInsert ==
  handler = "generate" =>
    /\ \A k \in 1..Len(calls) :
         calls[k] = "itemInsert" => \E j \in 1..(k - 1) : calls[j] = "plCreate"
    /\ Issued("itemInsert") => plCreateOk
    /\ (pc = "done" /\ Issued("plCreate") /\ ~plCreateOk) =>
         (resp.status = 500 /\ ~Issued("itemInsert"))

\* C4 witness: a failed create with a non-empty item list has been answered.
C4_Witness ==
  /\ handler = "generate"
  /\ pc = "done"
  /\ Issued("plCreate")
  /\ ~plCreateOk
  /\ Len(items) > 0
  /\ resp.error = "Failed to create punchlist"

\* C5: if the header create succeeded and the batch item insert fails, the response
\* is HTTP 500, the created header row is still in the backend, and the handler has
\* issued no other call: no compensating delete or update, no second insert.
C5_InsertFailureKeepsHeader ==
  (handler = "generate" /\ pc = "done" /\ plCreateOk /\ Issued("itemInsert") /\ ~insOk) =>
    /\ resp.status = 500
    /\ pl \in punchlists
    /\ calls = <<"diffRead", "plCreate", "itemInsert">>

\* C5 witness: the insert was answered with a non-2xx response after a successful create.
C5_Witness ==
  /\ handler = "generate"
  /\ pc = "done"
  /\ plCreateOk
  /\ Issued("itemInsert")
  /\ resp.error = "Failed to insert punchlist items"
RECURSIVE ConcatSlices(_)
ConcatSlices(ps) ==
  IF ps = <<>> THEN <<>> ELSE ConcatSlices(SubSeq(ps, 1, Len(ps) - 1)) \o ps[Len(ps)].pageItems

Paginated == handler = "pro_pdf" /\ pageIndex > 0 /\ pc # "paginate"

C6_PagesRight ==
  Paginated =>
    LET N == Len(pdfItems)
        R == measureRowsPerPage
    IN /\ R > 0
       /\ Len(pages) = (IF N = 0 THEN 1 ELSE (N + R - 1) \div R)
       /\ \A k \in 1..Len(pages) : Len(pages[k].pageItems) <= R
       /\ ConcatSlices(pages) = pdfItems

\* C6: buildPdf creates ceil(N/R) pages for N > 0 items and one page for N = 0, every
\* page slice holds at most R items, the slices concatenated in page order are the item
\* list, and the pagination loop terminates.
C6_Pagination ==
  /\ []C6_PagesRight
  /\ (handler = "pro_pdf" /\ pc = "paginate") ~> (pc # "paginate")

\* C6 witness: a list of more than 2R items, not a multiple of R, was cut into 3 pages
\* and the report was returned.
C6_Witness ==
  /\ Paginated
  /\ Len(pdfItems) > 2 * measureRowsPerPage
  /\ Len(pdfItems) < 3 * measureRowsPerPage
  /\ Len(pages) = 3
  /\ pc = "done"
  /\ resp.status = 200

\* C7: in a document of M pages, page i gets exactly one footer, "Page i of M", and a
\* footer is only drawn once all M pages exist.
C7_Footers ==
  handler = "pro_pdf" =>
    /\ \A k \in 1..Len(pages) : \A f \in 1..Len(pages[k].footers) :
         /\ pages[k].footers[f] = [pageNumber |-> k, pageCount |-> Len(pages)]
         /\ pc \in {"footer", "done"}
         /\ ~loopCond(startIdx, Len(pdfItems), pageIndex)
    /\ (pc = "done" /\ resp.status = 200) =>
         /\ Len(pages) >= 1
         /\ \A k \in 1..Len(pages) : Len(pages[k].footers) = 1

\* C7 witness: a report of 3 pages was returned.
C7_Witness ==
  /\ handler = "pro_pdf"
  /\ pc = "done"
  /\ resp.status = 200
  /\ Len(pages) = 3
  /\ pages[2].footers = <<[pageNumber |-> 2, pageCount |-> 3]>>

\* C8: no outcome of retrieving or embedding the company logo or the client logo makes
\* the render return an error: the report is produced with HTTP 200, and a logo whose
\* fetch threw or was answered non-2xx is left out.
C8_LogoNeverFails ==
  (Paginated /\ pc = "done") =>
    /\ resp.status = 200
    /\ \A which \in {"company", "client"} :
         logoRes[which] \in {"throw", "notok"} =>
           \A k \in 1..Len(pages) : which \notin pages[k].logos
\* the backend base URL or the service credential is absent for the request being served
ConfigAbsent == handler # "idle" /\ (env.url = FALSE \/ env.key = FALSE)

\* C9 as stated: in every handler that uses the backend, a request served without the
\* backend base URL or the service credential ends with HTTP 500 and makes no outbound
\* call.
C9_ConfigAbsent500 ==
  ConfigAbsent => (calls = <<>> /\ (pc = "done" => resp.status = 500))

\* C9 as amended: such a request makes no outbound call and ends with HTTP 500, except
\* that generate_punchlist and import_manifest answer a request that is not a POST
\* with HTTP 405 before they look at the configuration.
C9_ConfigAbsentNoCalls ==
  ConfigAbsent =>
    /\ calls = <<>>
    /\ pc = "done"
    /\ resp.status = (IF handler \in {"generate", "import"} /\ method # "POST"
                        THEN 405 ELSE 500)

\* C9 witness: a POST to generate_punchlist was served with the URL set and the
\* credential absent.
C9_Witness ==
  /\ handler = "generate"
  /\ method = "POST"
  /\ env.url /\ ~env.key
  /\ pc = "done"
  /\ resp.status = 500
  /\ calls = <<>>

\* C10: import_manifest answers HTTP 400 whenever the POST body is not a non-empty JSON
\* array (an empty array, a JSON value that is no array, or a body that does not parse),
\* and then makes no schema bootstrap call and no upsert.
C10_InvalidBody400 ==
  (handler = "import" /\ method = "POST" /\ ~ConfigAbsent /\ pc = "done"
     /\ rows \in {"unparsable", "nonarray", "empty"}) =>
    /\ resp.status = 400
    /\ calls = <<>>

\* the two report handlers
PdfHandlers == {"pro_pdf", "simple_pdf"}

\* the lookup of the request's identifier came back without a row: no punchlist of the
\* given work order (simple handler, line 209), or no punchlist with the given id
NoRecord == handler \in PdfHandlers /\ plRow = "none"

\* C11: a report request whose identifier matches no record (a work_order_id with no
\* punchlist, or a punchlist_id with no punchlist row) is answered with HTTP 404 and
\* no PDF.
C11_NoRecord404 ==
  NoRecord => (pc = "done" /\ resp.status = 404 /\ resp.body # "pdf")

\* the response is an error response: an error status, an error body, no items, no PDF
ErrorResponse == resp.status >= 400 /\ resp.body = "error" /\ resp.items = <<>>

\* the request has been aborted: the handler has returned, with an error response
Aborted == pc = "done" /\ ErrorResponse

\* generate_punchlist could not read its body and went on with an empty one
GenBodySwallowed == handler = "generate" /\ failure = "body"

\* C12 (as stated): in every handler, any failure other than a logo-fetch failure (an
\* unparsable request body, a non-success backend response, a thrown exception) aborts
\* the request: the response is an error response and nothing is done after the failure.
C12_EveryFailureAborts == failure # "none" => Aborted

\* C12 (as amended): any failure other than a logo-fetch failure, and other than an
\* unparsable body of a generate punchlist request, aborts the request with an error
\* response, and the step that meets the failure issues no further outbound call; an
\* unparsable body of a generate punchlist request is read as an empty body, so the
\* request goes on with work_order_id null.
C12_FailureAborts ==
  /\ [](failure # "none" /\ ~GenBodySwallowed => Aborted)
  /\ [](GenBodySwallowed => work_order_id = "null")
  /\ [][failure' # "none" /\ ~GenBodySwallowed' /\ handler' # "idle" => calls' = calls]_vars

\* C12 witness: a generate punchlist request was aborted by a backend failure after
\* the diff view had been read.
C12_Witness ==
  /\ handler = "generate" /\ failure = "backend"
  /\ Len(calls) >= 2
  /\ Aborted

\* the sources of a branding value, highest priority first: each is present or absent
\* and has the value it would give
Source(present, value) == [present |-> present, value |-> value]
OverrideName == Source(brandOverride.name, "override")
OverrideLogo == Source(brandOverride.logo, "override")
WorkOrderName == Source(woRow.found /\ woRow.company_display_name, "wo")
WorkOrderLogo == Source(woRow.found /\ woRow.company_logo_url, "wo")
EnvName == Source(brandEnv.name, "env")
EnvLogo == Source(brandEnv.logo, "env")
DefaultName == Source(TRUE, "WPUSA")
DefaultLogo == Source(TRUE, "")

\* the value of the first source that is present
FirstPresent(sources) ==
  LET i == CHOOSE k \in 1..Len(sources) :
             sources[k].present /\ \A j \in 1..(k - 1) : ~sources[j].present
  IN sources[i].value

\* the report handler has resolved the branding of the current request
BrandResolved == handler = "pro_pdf" /\ branding # NoBranding

\* C13 (as stated): the company name and logo of a report are resolved in strict
\* priority order: per-request override, else the work order's branding column if
\* non-empty, else the environment fallback if set, else the hardcoded default.
C13_OverrideFirst ==
  BrandResolved =>
    /\ branding.companyDisplayName =
         FirstPresent(<<OverrideName, WorkOrderName, EnvName, DefaultName>>)
    /\ branding.companyLogo =
         FirstPresent(<<OverrideLogo, WorkOrderLogo, EnvLogo, DefaultLogo>>)

\* C13 (as amended): the handler takes no per-request override; the company name and
\* logo are resolved in strict priority order: the work order's branding column if
\* non-empty, else the environment fallback if set, else the hardcoded default (the
\* name WPUSA, no logo), whatever branding the request itself carries.
C13_BrandingPriority ==
  BrandResolved =>
    /\ branding.companyDisplayName = FirstPresent(<<WorkOrderName, EnvName, DefaultName>>)
    /\ branding.companyLogo = FirstPresent(<<WorkOrderLogo, EnvLogo, DefaultLogo>>)

\* C13 witness: a report was rendered for a work order that has a logo but no display
\* name, with both fallbacks set in the environment: the name comes from the
\* environment, the logo from the work order.
C13_Witness ==
  /\ handler = "pro_pdf" /\ pc = "done" /\ resp = PdfResp
  /\ woRow.found /\ ~woRow.company_display_name /\ woRow.company_logo_url
  /\ brandEnv.name /\ brandEnv.logo
  /\ branding.companyDisplayName = "env" /\ branding.companyLogo = "wo"

\* the simple report handler has returned its document
SimRendered == handler = "simple_pdf" /\ pc = "done" /\ resp = PdfResp

\* no page object is in the document twice: every page break made a new page
PagesDistinct ==
  \A i, j \in 1..Len(docPages) : i # j => docPages[i] # docPages[j]

\* the draws of the item rows, and of the header lines (title, meta lines, table header)
RowDraws == {i \in 1..Len(draws) : draws[i].kind = "row"}
HeaderDraws == {i \in 1..Len(draws) : draws[i].kind \in {"text", "header"}}

\* no item row shares its page and vertical position with another row or a header line
NoOverprint ==
  \A i \in RowDraws : \A j \in (RowDraws \cup HeaderDraws) \ {i} :
    ~(draws[i].page = draws[j].page /\ draws[i].y = draws[j].y)

\* every item is drawn exactly once, in input order
EachItemOnce ==
  /\ Cardinality(RowDraws) = Len(pdfItems)
  /\ \A k \in 1..Len(pdfItems) :
       Cardinality({i \in RowDraws : draws[i].item = pdfItems[k]}) = 1
  /\ \A i, j \in RowDraws : i < j => draws[i].item < draws[j].item

\* C14: in the simple report renderer, for every item list length, once the row cursor
\* is below the bottom threshold the following rows go to a newly created page, so no
\* two item rows and no item row and header line share a position on a page, and the
\* document holds all its pages in order with each item drawn exactly once.
C14_NewPagePerBreak ==
  SimRendered => (PagesDistinct /\ NoOverprint /\ EachItemOnce)
====
